---- MODULE Spec2Model ----
(***************************************************************************)
(* A model of robusta_krr/strategies/simple.py: the settings object of the *)
(* "simple" strategy (two validated fields, two proposal functions) and    *)
(* SimpleStrategy.run, which assembles a RunResult from the two proposals. *)
(*                                                                         *)
(* Floats are modelled as exact rationals [n, d] in lowest terms, NaN as   *)
(* the record with d = 0.  A Python dict is a sequence of [key, val]       *)
(* entries with distinct keys, in insertion order.  A sample series is a   *)
(* sequence of rows <<timestamp, value>> (a 2-column array).  A call's     *)
(* outcome is [exc, val]: exc = "none" and the returned value, or the name *)
(* of the exception that propagated.                                       *)
(***************************************************************************)
EXTENDS Integers, Sequences, FiniteSets

VARIABLES
    settings,       \* <<>>: no settings object; <<s>>: the constructed one
    construction,   \* the last SimpleStrategySettings(...) call and how it ended
    numpy_build,    \* what the installed numpy does for a percentile of no data
    runs,           \* each invocation of SimpleStrategy.run: position and locals
    data,           \* the argument of a direct call of the proposal functions
    cpu_out,        \* outcome of calculate_cpu_proposal(data)
    mem_out         \* outcome of calculate_memory_proposal(data)

vars == <<settings, construction, numpy_build, runs, data, cpu_out, mem_out>>

----------------------------------------------------------------------------
(* Bounds of the model *)

\* largest sample value
MaxVal == 2
\* largest number of samples one container mapping holds, over all its series
MaxSamples == 3
\* largest timestamp
MaxT == 1

Containers == {"a", "b"}

----------------------------------------------------------------------------
(* Floats *)

RECURSIVE GCD(_, _)
GCD(x, y) == IF y = 0 THEN x ELSE GCD(y, x % y)

Abs(x) == IF x < 0 THEN -x ELSE x

\* n/d in lowest terms, d > 0
Rat(n, d) ==
    LET g == GCD(Abs(n), Abs(d))
        s == IF d < 0 THEN -1 ELSE 1
    IN  [n |-> (s * n) \div g, d |-> (s * d) \div g]

NaN == [n |-> 0, d |-> 0]
IsNaN(x) == x.d = 0
FromInt(i) == [n |-> i, d |-> 1]

RAdd(x, y) == IF IsNaN(x) \/ IsNaN(y) THEN NaN ELSE Rat(x.n * y.d + y.n * x.d, x.d * y.d)
RMul(x, y) == IF IsNaN(x) \/ IsNaN(y) THEN NaN ELSE Rat(x.n * y.n, x.d * y.d)
RDiv(x, y) == IF IsNaN(x) \/ IsNaN(y) \/ y.n = 0 THEN NaN ELSE Rat(x.n * y.d, x.d * y.n)

\* IEEE comparisons: every comparison with NaN is false
Less(x, y) == ~IsNaN(x) /\ ~IsNaN(y) /\ x.n * y.d < y.n * x.d
LessEq(x, y) == ~IsNaN(x) /\ ~IsNaN(y) /\ x.n * y.d <= y.n * x.d

----------------------------------------------------------------------------
(* Outcomes of a call *)

Ok(v) == [exc |-> "none", val |-> v]
Raise(e) == [exc |-> e, val |-> NaN]
Pending == [exc |-> "pending", val |-> NaN]

----------------------------------------------------------------------------
(* Python and numpy primitives the source calls *)

\* d.values()
DictValues(d) == [i \in 1..Len(d) |-> d[i].val]

\* d[k]: the value stored under k, KeyError when there is none
DictGet(d, k) ==
    IF \E i \in 1..Len(d) : d[i].key = k
    THEN Ok((d[CHOOSE i \in 1..Len(d) : d[i].key = k]).val)
    ELSE Raise("KeyError")

\* values[:, col]: one column of a 2-column array (col counts from 0)
\* (ColumnTimestamps: the slice taken one column to the left)
ColumnTimestamps(values, col) == [i \in 1..Len(values) |-> values[i][col]]
Column(values, col) == [i \in 1..Len(values) |-> values[i][col + 1]]

\* the sum of a list
RECURSIVE SeqSum(_)
SeqSum(s) == IF Len(s) = 0 THEN 0 ELSE s[1] + SeqSum(Tail(s))
\* the largest element of a non-empty list
RECURSIVE SeqMax(_)
SeqMax(s) ==
    IF Len(s) = 1 THEN s[1]
    ELSE LET m == SeqMax(Tail(s)) IN IF s[1] > m THEN s[1] ELSE m

\* np.max(a): ValueError on a zero-size array
NpMax(a) == IF Len(a) = 0 THEN Raise("ValueError") ELSE Ok(SeqMax(a))

\* max(list) of a non-empty list
PyMax(list) == SeqMax(list)

\* np.concatenate(arrays)
\* (ConcatenateFirstOnly: the arrays after the first are dropped)
ConcatenateFirstOnly(arrays) == IF Len(arrays) = 0 THEN <<>> ELSE arrays[1]
RECURSIVE Concatenate(_)
Concatenate(arrays) ==
    IF Len(arrays) = 0 THEN <<>> ELSE arrays[1] \o Concatenate(Tail(arrays))

\* a sorted copy (insertion sort)
RECURSIVE Insert(_, _)
Insert(x, s) ==
    IF Len(s) = 0 THEN <<x>>
    ELSE IF x <= s[1] THEN <<x>> \o s
    ELSE <<s[1]>> \o Insert(x, Tail(s))
RECURSIVE Sorted(_)
Sorted(a) == IF Len(a) = 0 THEN <<>> ELSE Insert(a[1], Sorted(Tail(a)))

\* np.percentile(a, q), method "linear": with the sorted samples s[0..n-1] and
\* the virtual index h = (n - 1) * q / 100, the value s[floor h] +
\* (s[floor h + 1] - s[floor h]) * (h - floor h).  For a zero-size array the
\* result depends on the numpy installed: nan, or IndexError.
NpPercentile(a, q) ==
    IF Len(a) = 0
    THEN IF numpy_build = "nan" THEN Ok(NaN) ELSE Raise("IndexError")
    ELSE LET s == Sorted(a)
             n == Len(s)
             num == (n - 1) * q.n
             den == 100 * q.d
             j == num \div den
             r == num % den
             lo == s[j + 1]
             hi == s[IF j + 2 > n THEN n ELSE j + 2]
         IN  Ok(Rat(lo * den + (hi - lo) * r, den))

----------------------------------------------------------------------------
(* SimpleStrategySettings: the fields *)

\* pd.Field(default, gt=..., le=...): a constraint is <<bound>>, or <<>> when
\* the field declares none
CpuPercentileField ==
    [default |-> FromInt(99), gt |-> <<FromInt(0)>>, le |-> <<FromInt(100)>>]
MemoryBufferPercentageField ==
    [default |-> FromInt(5), gt |-> <<FromInt(0)>>, le |-> <<>>]

\* the value a field takes: the argument <<v>>, or the default when omitted (<<>>)
FieldValue(field, arg) == IF arg = <<>> THEN field.default ELSE arg[1]

\* pydantic's check of a value against the field's constraints
\* (FieldOkExclusive: le taken for lt)
FieldOkExclusive(field, v) ==
    /\ field.gt = <<>> \/ Less(field.gt[1], v)
    /\ field.le = <<>> \/ Less(v, field.le[1])
FieldOk(field, v) ==
    /\ field.gt = <<>> \/ Less(field.gt[1], v)
    /\ field.le = <<>> \/ LessEq(v, field.le[1])

\* SimpleStrategySettings(cpu_percentile=..., memory_buffer_percentage=...):
\* the object, or ValidationError
NewSettings(cpu_arg, mem_arg) ==
    LET cp == FieldValue(CpuPercentileField, cpu_arg)
        mb == FieldValue(MemoryBufferPercentageField, mem_arg)
    IN  IF FieldOk(CpuPercentileField, cp) /\ FieldOk(MemoryBufferPercentageField, mb)
        THEN [exc |-> "none",
              val |-> <<[cpu_percentile |-> cp, memory_buffer_percentage |-> mb]>>]
        ELSE [exc |-> "ValidationError", val |-> <<>>]

----------------------------------------------------------------------------
(* SimpleStrategySettings: the proposal functions *)

\* [np.max(values[:, 1]) for values in data.values()]: the list, or the
\* exception of the first element that raises
PeakList(d) ==
    LET cols == [i \in 1..Len(d) |-> Column(DictValues(d)[i], 1)]
    IN  IF \E i \in 1..Len(d) : NpMax(cols[i]).exc # "none"
        THEN Raise("ValueError")
        ELSE Ok([i \in 1..Len(d) |-> NpMax(cols[i]).val])

\* (calculate_memory_proposal_sum: the peaks are summed;
\*  calculate_memory_proposal_shrink: the buffer is subtracted)
calculate_memory_proposal_sum(self, d) ==
    LET data_ == PeakList(d)
    IN  IF data_.exc # "none" THEN Raise(data_.exc)
        ELSE IF Len(data_.val) = 0 THEN Ok(NaN)
        ELSE Ok(RMul(FromInt(SeqSum(data_.val)),
                     RAdd(FromInt(1), RDiv(self.memory_buffer_percentage, FromInt(100)))))
calculate_memory_proposal_shrink(self, d) ==
    LET data_ == PeakList(d)
    IN  IF data_.exc # "none" THEN Raise(data_.exc)
        ELSE IF Len(data_.val) = 0 THEN Ok(NaN)
        ELSE Ok(RMul(FromInt(PyMax(data_.val)),
                     RAdd(FromInt(1), RDiv(RMul(FromInt(-1), self.memory_buffer_percentage),
                                           FromInt(100)))))
calculate_memory_proposal(self, d) ==
    LET data_ == PeakList(d)
    IN  IF data_.exc # "none" THEN Raise(data_.exc)
        ELSE IF Len(data_.val) = 0 THEN Ok(NaN)
        ELSE Ok(RMul(FromInt(PyMax(data_.val)),
                     RAdd(FromInt(1), RDiv(self.memory_buffer_percentage, FromInt(100)))))

calculate_cpu_proposal(self, d) ==
    IF Len(d) = 0 THEN Ok(NaN)
    ELSE LET data_ == IF Len(d) > 1
                      THEN Concatenate([i \in 1..Len(d) |-> Column(DictValues(d)[i], 1)])
                      ELSE Column(DictValues(d)[1], 1)
         IN  NpPercentile(data_, self.cpu_percentile)

----------------------------------------------------------------------------
(* SimpleStrategy.run, one step per statement *)

Runs == {"r1", "r2"}

Idle ==
    [pc |-> "idle", history_data |-> <<>>, object_data |-> "", cpu_usage |-> <<>>,
     memory_usage |-> <<>>, exc |-> "none", result |-> <<>>]

InFlight == {"line58", "line59", "line61"}
Finished == {"returned", "raised"}

\* ResourceRecommendation(request=..., limit=...): an optional float is <<v>>, None is <<>>
ResourceRecommendation(request, limit) == [request |-> request, limit |-> limit]

\* settings = SimpleStrategySettings(...); SimpleStrategy(settings): tried until
\* it succeeds, the one settings object then serves every run
Construct(cpu_arg, mem_arg) ==
    /\ settings = <<>>
    /\ LET new == NewSettings(cpu_arg, mem_arg)
       IN  /\ settings' = new.val
           /\ construction' = [cpu_arg |-> cpu_arg, mem_arg |-> mem_arg, exc |-> new.exc]
    /\ UNCHANGED <<numpy_build, runs, data, cpu_out, mem_out>>

\* strategy.run(history_data, object_data) is entered
Call(r, history_data, object_data) ==
    /\ settings # <<>>
    /\ runs[r].pc \notin InFlight
    /\ runs' = [runs EXCEPT ![r] = [Idle EXCEPT !.pc = "line58",
                                                !.history_data = history_data,
                                                !.object_data = object_data]]
    /\ UNCHANGED <<settings, construction, numpy_build, data, cpu_out, mem_out>>

\* cpu_usage = self.settings.calculate_cpu_proposal(history_data[ResourceType.CPU])
Line58(r) ==
    /\ runs[r].pc = "line58"
    /\ LET sub == DictGet(runs[r].history_data, "CPU")
           out == IF sub.exc # "none" THEN Raise(sub.exc)
                  ELSE calculate_cpu_proposal(settings[1], sub.val)
       IN  runs' = [runs EXCEPT ![r] =
                       IF out.exc # "none"
                       THEN [@ EXCEPT !.pc = "raised", !.exc = out.exc]
                       ELSE [@ EXCEPT !.pc = "line59", !.cpu_usage = <<out.val>>]]
    /\ UNCHANGED <<settings, construction, numpy_build, data, cpu_out, mem_out>>

\* memory_usage = self.settings.calculate_memory_proposal(history_data[ResourceType.Memory])
\* (Line59Shared: history_data kept on the strategy object, where any
\*  invocation in progress may have put its own)
Line59Shared(r) ==
    /\ runs[r].pc = "line59"
    /\ \E o \in Runs :
        /\ runs[o].pc \in InFlight
        /\ LET sub == DictGet(runs[o].history_data, "Memory")
               out == IF sub.exc # "none" THEN Raise(sub.exc)
                      ELSE calculate_memory_proposal(settings[1], sub.val)
           IN  runs' = [runs EXCEPT ![r] =
                           IF out.exc # "none"
                           THEN [@ EXCEPT !.pc = "raised", !.exc = out.exc]
                           ELSE [@ EXCEPT !.pc = "line61", !.memory_usage = <<out.val>>]]
    /\ UNCHANGED <<settings, construction, numpy_build, data, cpu_out, mem_out>>
Line59(r) ==
    /\ runs[r].pc = "line59"
    /\ LET sub == DictGet(runs[r].history_data, "Memory")
           out == IF sub.exc # "none" THEN Raise(sub.exc)
                  ELSE calculate_memory_proposal(settings[1], sub.val)
       IN  runs' = [runs EXCEPT ![r] =
                       IF out.exc # "none"
                       THEN [@ EXCEPT !.pc = "raised", !.exc = out.exc]
                       ELSE [@ EXCEPT !.pc = "line61", !.memory_usage = <<out.val>>]]
    /\ UNCHANGED <<settings, construction, numpy_build, data, cpu_out, mem_out>>

\* return {ResourceType.CPU: ..., ResourceType.Memory: ...}
RunResultOf(cpu_usage, memory_usage) ==
    << [key |-> "CPU", val |-> ResourceRecommendation(cpu_usage, <<>>)],
       [key |-> "Memory", val |-> ResourceRecommendation(memory_usage, memory_usage)] >>

Line61(r) ==
    /\ runs[r].pc = "line61"
    /\ runs' = [runs EXCEPT ![r] =
                   [@ EXCEPT !.pc = "returned",
                             !.result = RunResultOf(runs[r].cpu_usage, runs[r].memory_usage)]]
    /\ UNCHANGED <<settings, construction, numpy_build, data, cpu_out, mem_out>>

----------------------------------------------------------------------------
(* Direct calls of the two proposal functions on one argument *)

CallCpu ==
    /\ settings # <<>>
    /\ cpu_out = Pending
    /\ cpu_out' = calculate_cpu_proposal(settings[1], data)
    /\ UNCHANGED <<settings, construction, numpy_build, runs, data, mem_out>>

CallMemory ==
    /\ settings # <<>>
    /\ mem_out = Pending
    /\ mem_out' = calculate_memory_proposal(settings[1], data)
    /\ UNCHANGED <<settings, construction, numpy_build, runs, data, cpu_out>>

----------------------------------------------------------------------------
(* Inputs *)

NumpyBuilds == {"nan", "IndexError"}

\* arguments of the constructor: <<>> is an omitted argument
CpuPercentileArgs ==
    {<<>>, <<FromInt(0)>>, <<Rat(1, 1000)>>, <<FromInt(100)>>, <<FromInt(101)>>}
MemoryBufferArgs == {<<>>, <<FromInt(0)>>, <<FromInt(-5)>>, <<FromInt(50)>>}

\* the percentiles the proposal functions are called under directly
DirectCpuPercentileArgs == CpuPercentileArgs \cup {<<FromInt(50)>>}

\* all series of at most k rows over a set of rows
SeriesUpTo(rows, k) == UNION {[1..n -> rows] : n \in 0..k}

\* rows in time order, one per value
Stamp(vals) == [i \in 1..Len(vals) |-> <<i - 1, vals[i]>>]
StampedSeriesUpTo(k) == {Stamp(v) : v \in SeriesUpTo(0..MaxVal, k)}
AnySeriesUpTo(k) == SeriesUpTo((0..MaxT) \X (0..MaxVal), k)

\* the series of at most k rows: in time order ("stamped"), or under any timestamps
SeriesOf(kind, k) == IF kind = "stamped" THEN StampedSeriesUpTo(k) ELSE AnySeriesUpTo(k)

\* the container mappings of at most two containers holding at most k rows
\* in all
ContainerMaps(kind, k) ==
    {<<>>}
    \cup {<<[key |-> c, val |-> s]>> : c \in Containers, s \in SeriesOf(kind, k)}
    \cup UNION { { <<[key |-> p[1], val |-> p[3]], [key |-> p[2], val |-> s2]>> :
                       s2 \in SeriesOf(kind, k - Len(p[3])) } :
                 p \in {q \in Containers \X Containers \X SeriesOf(kind, k) : q[1] # q[2]} }

\* the workloads run is called with
RunSeries == {<<>>, << <<0, 2>>, <<1, 1>> >>}
RunMaps ==
    {<<>>}
    \cup {<<[key |-> "a", val |-> s]>> : s \in RunSeries}
    \cup {<<[key |-> "a", val |-> << <<0, 2>>, <<1, 1>> >>],
            [key |-> "b", val |-> << <<0, 1>> >>]>>}
Histories ==
    {<<>>}
    \cup {<<[key |-> k, val |-> m]>> : k \in {"CPU", "Memory"}, m \in RunMaps}
    \cup {<<[key |-> "CPU", val |-> c], [key |-> "Memory", val |-> m]>> :
             c \in RunMaps, m \in RunMaps}
Objects == {"deployment/web", "job/batch"}

----------------------------------------------------------------------------
(* Specifications *)

\* the strategy's life: construction, then runs, interleaved statement by statement
Init ==
    /\ settings = <<>>
    /\ construction = [cpu_arg |-> <<>>, mem_arg |-> <<>>, exc |-> "nocall"]
    /\ numpy_build \in NumpyBuilds
    /\ runs = [r \in Runs |-> Idle]
    /\ data = <<>>
    /\ cpu_out = Pending
    /\ mem_out = Pending

Next ==
    \/ \E c \in CpuPercentileArgs, m \in MemoryBufferArgs : Construct(c, m)
    \/ \E r \in Runs, h \in Histories, o \in Objects : Call(r, h, o)
    \/ \E r \in Runs : Line58(r)
    \/ \E r \in Runs : Line59(r)
    \/ \E r \in Runs : Line61(r)

Spec == Init /\ [][Next]_vars

\* a constructed settings object and one argument of the proposal functions
InitWith(maps, cpu_args, mem_args) ==
    /\ \E c \in cpu_args, m \in mem_args :
          /\ NewSettings(c, m).exc = "none"
          /\ settings = NewSettings(c, m).val
          /\ construction = [cpu_arg |-> c, mem_arg |-> m, exc |-> "none"]
    /\ numpy_build \in NumpyBuilds
    /\ runs = [r \in Runs |-> Idle]
    /\ data \in maps
    /\ cpu_out = Pending
    /\ mem_out = Pending

FnNext == CallCpu \/ CallMemory

\* the proposal functions on series in time order
FnInit ==
    InitWith(ContainerMaps("stamped", MaxSamples),
             DirectCpuPercentileArgs, MemoryBufferArgs)
FnSpec == FnInit /\ [][FnNext]_vars

\* the proposal functions on series with any timestamps
TsInit ==
    InitWith(ContainerMaps("any", MaxSamples - 1), CpuPercentileArgs, MemoryBufferArgs)
TsSpec == TsInit /\ [][FnNext]_vars

----------------------------------------------------------------------------
(* Vocabulary of the properties *)

self == settings[1]

HasKey(d, k) == \E i \in 1..Len(d) : d[i].key = k
Keys(d) == [i \in 1..Len(d) |-> d[i].key]

\* the samples of a container mapping, each named by container and row
Samples(d) == UNION {{<<i, j>> : j \in 1..Len(d[i].val)} : i \in 1..Len(d)}
ValueAt(d, s) == d[s[1]].val[s[2]][2]
ValuesIn(d) == {ValueAt(d, s) : s \in Samples(d)}
SetMax(S) == CHOOSE m \in S : \A x \in S : x <= m

NoEmptySeries(d) == \A i \in 1..Len(d) : Len(d[i].val) > 0
OnlyEmptySeries(d) == \A i \in 1..Len(d) : Len(d[i].val) = 0

\* the k-th smallest sample value, by counting
KthSmallest(d, k) ==
    CHOOSE v \in ValuesIn(d) :
        /\ Cardinality({s \in Samples(d) : ValueAt(d, s) <= v}) >= k
        /\ Cardinality({s \in Samples(d) : ValueAt(d, s) < v}) < k

\* the linear-interpolated p-th percentile of the pooled samples of d
LinearPercentile(d, p) ==
    LET N == Cardinality(Samples(d))
        num == (N - 1) * p.n
        den == 100 * p.d
        j == num \div den
        r == num % den
        lo == KthSmallest(d, j + 1)
        hi == KthSmallest(d, IF j + 2 > N THEN N ELSE j + 2)
    IN  Rat(lo * den + (hi - lo) * r, den)

\* the history, as a run of the strategy alone would end on it
RunAlone(s, history_data) ==
    LET c == DictGet(history_data, "CPU")
        co == IF c.exc # "none" THEN Raise(c.exc) ELSE calculate_cpu_proposal(s, c.val)
        m == DictGet(history_data, "Memory")
        mo == IF m.exc # "none" THEN Raise(m.exc) ELSE calculate_memory_proposal(s, m.val)
    IN  IF co.exc # "none" THEN [pc |-> "raised", exc |-> co.exc, result |-> <<>>]
        ELSE IF mo.exc # "none" THEN [pc |-> "raised", exc |-> mo.exc, result |-> <<>>]
        ELSE [pc |-> "returned", exc |-> "none",
              result |-> RunResultOf(<<co.val>>, <<mo.val>>)]

----------------------------------------------------------------------------
(* Properties of run *)

\* Every run that returns has assembled the two proposals: the keys are CPU and
\* Memory, the CPU limit is None, the memory request and limit are the same.
ReturnedRunsAssembleProposals ==
    \A r \in Runs :
        runs[r].pc = "returned" =>
            LET h == runs[r].history_data
                res == runs[r].result
            IN  /\ Keys(res) = <<"CPU", "Memory">>
                /\ res[1].val.request
                      = <<calculate_cpu_proposal(self, DictGet(h, "CPU").val).val>>
                /\ res[1].val.limit = <<>>
                /\ res[2].val.request
                      = <<calculate_memory_proposal(self, DictGet(h, "Memory").val).val>>
                /\ res[2].val.limit = res[2].val.request

\* C1: for every history_data with a CPU entry and a Memory entry, run returns
\* a mapping with exactly the keys CPU and Memory; the CPU recommendation has
\* request = calculate_cpu_proposal(history_data[CPU]) and limit None, the
\* Memory recommendation has request = limit =
\* calculate_memory_proposal(history_data[Memory]).  (Stated for the histories
\* whose CPU series all hold samples, where the result does not depend on the
\* numpy installed.)
C1_RunReturnsBothRecommendations ==
    \A r \in Runs :
        LET h == runs[r].history_data
            res == runs[r].result
        IN  ( /\ runs[r].pc \in Finished
              /\ HasKey(h, "CPU") /\ HasKey(h, "Memory")
              /\ NoEmptySeries(DictGet(h, "CPU").val) ) =>
                /\ runs[r].pc = "returned"
                /\ Keys(res) = <<"CPU", "Memory">>
                /\ res[1].val.request
                      = <<calculate_cpu_proposal(self, DictGet(h, "CPU").val).val>>
                /\ res[1].val.limit = <<>>
                /\ res[2].val.request
                      = <<calculate_memory_proposal(self, DictGet(h, "Memory").val).val>>
                /\ res[2].val.limit = res[2].val.request

\* C2: a run on a history_data that has both entries, one or both of them the
\* empty mapping {}, does not raise; it returns entries for CPU and Memory, with
\* NaN as the request (for Memory, also the limit) of each resource whose
\* mapping is empty.  (Stated for the histories whose CPU series all hold
\* samples, where the result does not depend on the numpy installed.)
C2_EmptyMappingRunReturnsNaN ==
    \A r \in Runs :
        LET h == runs[r].history_data
            res == runs[r].result
        IN  ( /\ runs[r].pc \in Finished
              /\ HasKey(h, "CPU") /\ HasKey(h, "Memory")
              /\ NoEmptySeries(DictGet(h, "CPU").val)
              /\ DictGet(h, "CPU").val = <<>> \/ DictGet(h, "Memory").val = <<>> ) =>
                /\ runs[r].pc = "returned"
                /\ Keys(res) = <<"CPU", "Memory">>
                /\ DictGet(h, "CPU").val = <<>> => res[1].val.request = <<NaN>>
                /\ DictGet(h, "Memory").val = <<>> =>
                      res[2].val.request = <<NaN>> /\ res[2].val.limit = <<NaN>>

\* C3: a run on a history_data from which CPU or Memory is absent never raises;
\* it returns, and the absent resource's request is NaN.
C3_AbsentResourceRunReturnsNaN ==
    \A r \in Runs :
        LET h == runs[r].history_data
            res == runs[r].result
        IN  ( /\ runs[r].pc \in Finished
              /\ ~HasKey(h, "CPU") \/ ~HasKey(h, "Memory") ) =>
                /\ runs[r].pc = "returned"
                /\ ~HasKey(h, "CPU") => res[1].val.request = <<NaN>>
                /\ ~HasKey(h, "Memory") => res[2].val.request = <<NaN>>

\* C4: constructing the settings succeeds if and only if 0 < cpu_percentile <=
\* 100 and memory_buffer_percentage > 0, with 99 and 5 taken for an omitted
\* argument; a failed construction leaves no settings object, so every run is a
\* run under values in range; cpu_percentile = 100 and 0.001 are accepted, 0
\* and 101 and memory_buffer_percentage = 0 are refused.
C4_ConstructionValidatesRanges ==
    LET cp == IF construction.cpu_arg = <<>> THEN FromInt(99) ELSE construction.cpu_arg[1]
        mb == IF construction.mem_arg = <<>> THEN FromInt(5) ELSE construction.mem_arg[1]
        inRange == cp.n > 0 /\ cp.n <= 100 * cp.d /\ mb.n > 0
    IN  /\ construction.exc # "nocall" =>
              /\ construction.exc = "none" <=> inRange
              /\ construction.exc = "ValidationError" <=> ~inRange
              /\ construction.exc = "none" =>
                    settings = <<[cpu_percentile |-> cp, memory_buffer_percentage |-> mb]>>
              /\ construction.exc = "ValidationError" => settings = <<>>
              /\ construction.cpu_arg \in {<<FromInt(0)>>, <<FromInt(101)>>} =>
                    construction.exc = "ValidationError"
              /\ construction.mem_arg = <<FromInt(0)>> => construction.exc = "ValidationError"
              /\ ( /\ construction.cpu_arg \in {<<FromInt(100)>>, <<Rat(1, 1000)>>}
                   /\ construction.mem_arg \in {<<>>, <<FromInt(50)>>} ) =>
                    construction.exc = "none"
        /\ settings = <<>> => \A r \in Runs : runs[r].pc = "idle"
        /\ settings # <<>> => construction.exc = "none"

\* a run has returned under settings constructed with the boundary value 100
C4_Witness ==
    /\ construction.exc = "none"
    /\ construction.cpu_arg = <<FromInt(100)>>
    /\ \E r \in Runs : runs[r].pc = "returned"

\* C9: run is a pure function of (settings, history_data, object_data): no
\* step of any invocation, however the invocations interleave or follow one
\* another, changes the settings or an invocation's arguments, and every
\* invocation ends as a run alone on its arguments ends.
C9_RunIsPure ==
    [][ /\ settings # <<>> => settings' = settings
        /\ \A r \in Runs :
              runs[r].pc \in InFlight =>
                  /\ runs'[r].history_data = runs[r].history_data
                  /\ runs'[r].object_data = runs[r].object_data
                  /\ runs'[r].pc \in Finished =>
                        LET alone == RunAlone(self, runs[r].history_data)
                        IN  /\ runs'[r].pc = alone.pc
                            /\ runs'[r].exc = alone.exc
                            /\ runs'[r].result = alone.result ]_vars

\* one invocation has returned while another, on a different history, is
\* between its two proposals
C9_Witness ==
    /\ runs["r1"].pc = "returned"
    /\ runs["r2"].pc = "line59"
    /\ runs["r1"].history_data # runs["r2"].history_data
    /\ runs["r1"].object_data # runs["r2"].object_data
    /\ RunAlone(self, runs["r1"].history_data).result
          # RunAlone(self, runs["r2"].history_data).result

----------------------------------------------------------------------------
(* Properties of the proposal functions *)

\* C5: for a non-empty mapping of containers to non-empty memory series and a
\* valid buffer b, calculate_memory_proposal returns (the largest, over the
\* containers, of each container's largest sample value) * (1 + b/100).
C5_MemoryIsPeakOfPeaksPlusBuffer ==
    (mem_out # Pending /\ data # <<>> /\ NoEmptySeries(data)) =>
        LET b == self.memory_buffer_percentage
            peak == SetMax({SetMax(ValuesIn(<<data[i]>>)) : i \in 1..Len(data)})
        IN  mem_out = Ok(Rat(peak * (100 * b.d + b.n), 100 * b.d))

\* two containers with different positive peaks: the proposal is neither the
\* buffered sum of the peaks nor the bare peak
C5_Witness ==
    /\ mem_out.exc = "none"
    /\ Len(data) = 2
    /\ NoEmptySeries(data)
    /\ LET b == self.memory_buffer_percentage
           p1 == SetMax(ValuesIn(<<data[1]>>))
           p2 == SetMax(ValuesIn(<<data[2]>>))
       IN  /\ p1 > 0 /\ p2 > p1
           /\ mem_out.val # Rat((p1 + p2) * (100 * b.d + b.n), 100 * b.d)
           /\ mem_out.val # FromInt(p2)
           /\ Less(FromInt(p2), mem_out.val)

\* C6: for a valid cpu_percentile p and a non-empty mapping of containers to
\* non-empty CPU series, calculate_cpu_proposal returns the linear-interpolated
\* p-th percentile of the pooled values of all containers; for p = 100 that is
\* the largest pooled value.
C6_CpuIsPercentileOfPooledSamples ==
    (cpu_out # Pending /\ data # <<>> /\ NoEmptySeries(data)) =>
        /\ cpu_out = Ok(LinearPercentile(data, self.cpu_percentile))
        /\ self.cpu_percentile = FromInt(100) => cpu_out = Ok(FromInt(SetMax(ValuesIn(data))))

\* two containers: the proposal is neither the average nor the largest of the
\* two containers' own percentiles
C6_Witness ==
    /\ cpu_out.exc = "none"
    /\ Len(data) = 2
    /\ NoEmptySeries(data)
    /\ LET p == self.cpu_percentile
           q1 == LinearPercentile(<<data[1]>>, p)
           q2 == LinearPercentile(<<data[2]>>, p)
       IN  /\ cpu_out.val # RDiv(RAdd(q1, q2), FromInt(2))
           /\ cpu_out.val # q1
           /\ cpu_out.val # q2
           /\ cpu_out.val = LinearPercentile(data, p)

\* the memory buffers a proposal is compared under
Buffers == {Rat(1, 1000), FromInt(5), FromInt(50), FromInt(200)}

\* d with the value of sample s set to v
SetValue(d, s, v) == [d EXCEPT ![s[1]].val[s[2]][2] = v]

\* C7: calculate_memory_proposal never decreases when memory_buffer_percentage
\* grows and the samples stay as they are, and never decreases when one sample
\* value grows and the settings and the other samples stay as they are.
C7_MemoryProposalIsMonotone ==
    mem_out # Pending =>
        /\ \A b2 \in Buffers :
              LET o2 == calculate_memory_proposal(
                            [self EXCEPT !.memory_buffer_percentage = b2], data)
              IN  /\ o2.exc = mem_out.exc
                  /\ LessEq(self.memory_buffer_percentage, b2) => ~Less(o2.val, mem_out.val)
                  /\ LessEq(b2, self.memory_buffer_percentage) => ~Less(mem_out.val, o2.val)
        /\ \A s \in Samples(data), v \in 0..(MaxVal + 1) :
              LET o2 == calculate_memory_proposal(self, SetValue(data, s, v))
              IN  /\ o2.exc = mem_out.exc
                  /\ ValueAt(data, s) <= v => ~Less(o2.val, mem_out.val)
                  /\ v <= ValueAt(data, s) => ~Less(mem_out.val, o2.val)

\* two containers: a larger buffer gives a larger proposal, and so does a
\* larger value of one sample
C7_Witness ==
    /\ mem_out.exc = "none"
    /\ Len(data) = 2
    /\ \E b2 \in Buffers :
          /\ Less(self.memory_buffer_percentage, b2)
          /\ Less(mem_out.val,
                  calculate_memory_proposal(
                      [self EXCEPT !.memory_buffer_percentage = b2], data).val)
    /\ \E s \in Samples(data), v \in 0..(MaxVal + 1) :
          /\ ValueAt(data, s) < v
          /\ Less(mem_out.val, calculate_memory_proposal(self, SetValue(data, s, v)).val)

\* d with each series' values in ascending order and every timestamp 0
Canon(d) ==
    [i \in 1..Len(d) |->
        [key |-> d[i].key,
         val |-> [j \in 1..Len(d[i].val) |-> <<0, KthSmallest(<<d[i]>>, j)>>]]]

\* C8: the proposals depend only on the sample values of each container, not
\* on the timestamps and not on the order of the rows: each proposal equals the
\* proposal for the same values per container in ascending order under
\* timestamps 0, so two inputs with the same values per container have the
\* same proposals.
C8_ProposalsReadOnlyTheValues ==
    /\ cpu_out # Pending => cpu_out = calculate_cpu_proposal(self, Canon(data))
    /\ mem_out # Pending => mem_out = calculate_memory_proposal(self, Canon(data))

\* both proposals made for a series whose values descend and whose timestamps
\* are not 0
C8_Witness ==
    /\ cpu_out.exc = "none" /\ ~IsNaN(cpu_out.val)
    /\ mem_out.exc = "none" /\ ~IsNaN(mem_out.val)
    /\ \E i \in 1..Len(data) :
          /\ Len(data[i].val) = 2
          /\ data[i].val[1][2] > data[i].val[2][2]
          /\ data[i].val[1][1] # data[i].val[2][1]
          /\ data[i].val[1][1] # data[i].val[1][2]
    /\ data # Canon(data)

\* C10: for a non-empty mapping in which every container's series has no rows,
\* calculate_cpu_proposal and calculate_memory_proposal return NaN and do not
\* raise.
C10_SeriesWithoutRowsGiveNaN ==
    ( /\ data # <<>>
      /\ OnlyEmptySeries(data)
      /\ cpu_out # Pending
      /\ mem_out # Pending ) =>
        /\ cpu_out = Ok(NaN)
        /\ mem_out = Ok(NaN)

====
